---- MODULE Spec2Model ----
(***************************************************************************)
(* Domain Checker: the client's LRU cache with TTL (services/cache.js),    *)
(* its key builder, and the sequential status batch of services/api.js     *)
(* (checkMultipleDomainStatus).                                            *)
(*                                                                         *)
(* Strings that the code sorts or concatenates are sequences of one-char   *)
(* strings, so that sorting and concatenation are computed, not assumed.   *)
(***************************************************************************)
EXTENDS Integers, Sequences, FiniteSets, TLC

(***************************************************************************)
(* Bounds of the model.                                                    *)
(***************************************************************************)
MaxCapacity == 2   \* capacities 1..MaxCapacity are constructed
TTL == 2           \* lifetime of an entry, in clock units
MaxTime == 3       \* the clock runs 0..MaxTime

(***************************************************************************)
(* Characters and strings.                                                 *)
(***************************************************************************)
Alphabet == <<"1", "2", "a", "c", "e", "h", "q", "r", "s", "u", "x", "y">>

RECURSIVE CharOrd(_, _)
\* position of character c in the collating order, searching from index n
CharOrd(c, n) ==
  IF n > Len(Alphabet) THEN n
  ELSE IF Alphabet[n] = c THEN n ELSE CharOrd(c, n + 1)

RECURSIVE LexLess(_, _)
\* a < b as Array.prototype.sort compares two strings
LexLess(a, b) ==
  IF b = <<>> THEN FALSE
  ELSE IF a = <<>> THEN TRUE
  ELSE IF Head(a) = Head(b) THEN LexLess(Tail(a), Tail(b))
  ELSE CharOrd(Head(a), 1) < CharOrd(Head(b), 1)

(***************************************************************************)
(* generateKey(base, params)                                               *)
(* params is [given, pairs]: given is FALSE for an absent mapping, pairs   *)
(* is the mapping in insertion order, a sequence of [name, value] records  *)
(* with distinct names.                                                    *)
(***************************************************************************)
Absent == [given |-> FALSE, pairs |-> <<>>]

Params(pairs) == [given |-> TRUE, pairs |-> pairs]

RECURSIVE InsertSorted(_, _)
InsertSorted(p, sorted) ==
  IF sorted = <<>> THEN <<p>>
  ELSE IF LexLess(p.name, Head(sorted).name) THEN <<p>> \o sorted
  ELSE <<Head(sorted)>> \o InsertSorted(p, Tail(sorted))

RECURSIVE SortByName(_)
\* the pairs ordered by parameter name
SortByName(params) ==
  IF params = <<>> THEN <<>>
  ELSE InsertSorted(Head(params), SortByName(Tail(params)))

RECURSIVE JoinPairs(_)
\* name=value pairs joined with "&"
JoinPairs(pairs) ==
  IF pairs = <<>> THEN <<>>
  ELSE LET p == Head(pairs)
           one == p.name \o <<"=">> \o p.value
       IN IF Tail(pairs) = <<>> THEN one
          ELSE one \o <<"&">> \o JoinPairs(Tail(pairs))

\* a buggy key builder: the pairs are concatenated in insertion order
generateKeyUnsorted(base, params) ==
  IF ~params.given THEN base \o <<":">>
  ELSE base \o <<":">> \o JoinPairs(params.pairs)

\* the key: base, ":" and the name=value pairs sorted by name
generateKey(base, params) ==
  IF ~params.given THEN base \o <<":">>
  ELSE base \o <<":">> \o JoinPairs(SortByName(params.pairs))

(***************************************************************************)
(* The cache: entries is the Map in iteration order, oldest first; each    *)
(* entry is [key, value, expiry].                                          *)
(***************************************************************************)
Miss == "miss"       \* the sentinel a lookup returns for "no value"
Error == "error"     \* an operation that ended in an exception
Done == "done"       \* an operation that returns nothing

StoredKeys(e) == {e[j].key : j \in 1..Len(e)}

has(e, k) == k \in StoredKeys(e)

entryOf(e, k) == CHOOSE x \in {e[j] : j \in 1..Len(e)} : x.key = k

remove(e, k) == SelectSeq(e, LAMBDA x : x.key # k)

\* an entry is invalid after its expiry
isExpired(entry, t) == t > entry.expiry

\* a buggy lookup: an entry is served whatever its expiry
getResultNoExpiry(e, en, k, t) ==
  IF ~en THEN Miss
  ELSE IF ~has(e, k) THEN Miss
  ELSE entryOf(e, k).value

\* a buggy lookup: an absent key raises instead of returning the sentinel
getResultThrows(e, en, k, t) ==
  IF ~en THEN Miss
  ELSE IF ~has(e, k) THEN Error
  ELSE IF isExpired(entryOf(e, k), t) THEN Miss
  ELSE entryOf(e, k).value

\* what get(key) returns
getResult(e, en, k, t) ==
  IF ~en THEN Miss
  ELSE IF ~has(e, k) THEN Miss
  ELSE IF isExpired(entryOf(e, k), t) THEN Miss
  ELSE entryOf(e, k).value

\* a buggy lookup: a hit does not promote the entry
getEntriesNoPromote(e, en, k, t) ==
  IF ~en THEN e
  ELSE IF ~has(e, k) THEN e
  ELSE IF isExpired(entryOf(e, k), t) THEN remove(e, k)
  ELSE e

\* the entries after get(key): an expired entry is purged, a hit is promoted
getEntries(e, en, k, t) ==
  IF ~en THEN e
  ELSE IF ~has(e, k) THEN e
  ELSE IF isExpired(entryOf(e, k), t) THEN remove(e, k)
  ELSE Append(remove(e, k), entryOf(e, k))

\* a buggy store: nothing is evicted
setEntriesNoEvict(e, en, cap, ttl, k, v, t) ==
  IF ~en THEN e
  ELSE Append(remove(e, k), [key |-> k, value |-> v, expiry |-> t + ttl])

\* a buggy store: an overwrite keeps the old expiry
setEntriesKeepExpiry(e, en, cap, ttl, k, v, t) ==
  IF ~en THEN e
  ELSE LET room == IF ~has(e, k) /\ Len(e) >= cap THEN Tail(e) ELSE e
           exp == IF has(e, k) THEN entryOf(e, k).expiry ELSE t + ttl
       IN Append(remove(room, k), [key |-> k, value |-> v, expiry |-> exp])

\* the entries after set(key, value)
setEntries(e, en, cap, ttl, k, v, t) ==
  IF ~en THEN e
  ELSE LET room == IF ~has(e, k) /\ Len(e) >= cap THEN Tail(e) ELSE e
       IN Append(remove(room, k), [key |-> k, value |-> v, expiry |-> t + ttl])

deleteEntries(e, k) == remove(e, k)

clearEntries(e) == <<>>

size(e) == Len(e)

\* a buggy toggle: disabling keeps the entries
setEnabledEntriesKeep(e, flag) == e

\* the entries after setEnabled(flag): disabling clears
setEnabledEntries(e, flag) == IF flag THEN e ELSE clearEntries(e)

(***************************************************************************)
(* State.                                                                  *)
(***************************************************************************)
VARIABLES
  capacity,    \* Cache: maximum entry count, fixed at construction
  entries,     \* Cache: the stored entries, least recently used first
  enabled,     \* Cache: the enabled flag
  now,         \* the clock read by get and set
  touchOrder,  \* history: the stored keys by their latest touch, oldest first
  written,     \* history: per key the latest live set, [val, at], or NoSet
  last,        \* the latest cache call: [op, key, ret, n, gone]
  flip,        \* alternates at every cache call
  gkBase,      \* generateKey: the base of the two calls compared
  gkA,         \* generateKey: a parameter mapping, as built by its caller
  gkB,         \* generateKey: another parameter mapping
  gkKeys,      \* generateKey: the two keys returned, <<>> before the calls
  domains,     \* checkMultipleDomainStatus: the argument
  pc,          \* checkMultipleDomainStatus: where the call is suspended
  idx,         \* checkMultipleDomainStatus: the loop index i
  results,     \* checkMultipleDomainStatus: the results array
  outcomes,    \* history: how each lookup settled, in settling order
  log,         \* history: lookups issued and settled, delays elapsed
  inflight,    \* history: lookups issued and not settled
  waited,      \* history: milliseconds spent in delay()
  version,     \* front end: which of the two App.js is running
  query,       \* front end: the text of the input field
  currentQuery,\* popup.js: the query of the latest search
  uiResults,   \* front end: the results state (popup.js: searchResults)
  loading,     \* front end: the loading flag
  error,       \* front end: the error message shown, "" for none
  expanded,    \* front end: the expanded flag (popup.js: isExpanded)
  tasks,       \* front end: the handler calls suspended at an await
  calls,       \* history: handler calls made so far
  ended,       \* history: the handler call, or its search phase, that finished
               \* in the latest step
  server,      \* server: "off", "listening", "closing" or "closed"
  conns,       \* server: the connections open
  timers,      \* server: the milliseconds left on each forced-shutdown timer
  exitCode,    \* server: the code process.exit was called with, -1 before
  signals,     \* history: the signals received
  sinceSignal  \* history: milliseconds since the first signal

cacheVars == <<capacity, entries, enabled, now, touchOrder, written, last, flip>>

keyVars == <<gkBase, gkA, gkB, gkKeys>>

seqVars == <<domains, pc, idx, results, outcomes, log, inflight, waited>>

appVars == <<version, query, currentQuery, uiResults, loading, error, expanded,
             tasks, calls, ended>>

srvVars == <<server, conns, timers, exitCode, signals, sinceSignal>>

vars == <<cacheVars, keyVars, seqVars, appVars, srvVars>>

(***************************************************************************)
(* The cache under arbitrary calls (CacheSpec).                            *)
(* Keys are built as handleSearch builds them, generateKey(base, {q}),     *)
(* from a one-letter base and parameter name.                              *)
(***************************************************************************)
SearchBase == <<"s">>
QueryName == <<"q">>
Queries == {<<"a">>, <<"x">>, <<"y">>}
Values == {"v1", "v2"}
NoKey == <<>>

searchKey(q) == generateKey(SearchBase, Params(<<[name |-> QueryName, value |-> q]>>))

CacheKeys == {searchKey(q) : q \in Queries}

KeyParams == {Absent, Params(<<[name |-> QueryName, value |-> <<"a">>]>>)}

\* the history of touches: k becomes the latest touched key
Touch(order, k) == Append(SelectSeq(order, LAMBDA x : x # k), k)

NoSet == [val |-> "none", at |-> 0]

Forget(w, ks) == [k \in CacheKeys |-> IF k \in ks THEN NoSet ELSE w[k]]

\* by the history, the latest set of k is older than the lifetime
PastExpiry(w, k, t) == w[k] # NoSet /\ t > w[k].at + TTL

\* the keys a call removed
Gone(before, after) == StoredKeys(before) \ StoredKeys(after)

\* the history of touches without the keys that are stored no longer
Untouch(order, ks) == SelectSeq(order, LAMBDA x : x \notin ks)

\* the parts of the state a specification does not exercise
CacheIdle ==
  /\ capacity = 1
  /\ entries = <<>>
  /\ enabled = TRUE
  /\ now = 0
  /\ touchOrder = <<>>
  /\ written = [k \in CacheKeys |-> NoSet]
  /\ last = [op |-> "new", key |-> NoKey, ret |-> Done, n |-> 0, gone |-> {}]
  /\ flip = FALSE

KeyIdle ==
  /\ gkBase = <<>>
  /\ gkA = Absent
  /\ gkB = Absent
  /\ gkKeys = <<>>

SeqIdle ==
  /\ domains = <<>>
  /\ pc = "idle"
  /\ idx = 0
  /\ results = <<>>
  /\ outcomes = <<>>
  /\ log = <<>>
  /\ inflight = 0
  /\ waited = 0

\* no handler call in flight; an App that never ran
NoTask == [kind |-> "none"]

\* no server is modelled
SrvIdle ==
  /\ server = "off"
  /\ conns = 0
  /\ timers = {}
  /\ exitCode = -1
  /\ signals = 0
  /\ sinceSignal = 0

AppIdle ==
  /\ version = 2
  /\ query = <<>>
  /\ currentQuery = <<>>
  /\ uiResults = <<>>
  /\ loading = FALSE
  /\ error = ""
  /\ expanded = FALSE
  /\ tasks = <<>>
  /\ calls = 0
  /\ ended = NoTask

CacheInit ==
  /\ KeyIdle
  /\ SeqIdle
  /\ AppIdle
  /\ SrvIdle
  /\ capacity \in 1..MaxCapacity
  /\ entries = <<>>
  /\ enabled = TRUE
  /\ now = 0
  /\ touchOrder = <<>>
  /\ written = [k \in CacheKeys |-> NoSet]
  /\ last = [op |-> "new", key |-> NoKey, ret |-> Done, n |-> 0, gone |-> {}]
  /\ flip = FALSE

Get(k) ==
  LET r == getResult(entries, enabled, k, now)
      after == getEntries(entries, enabled, k, now)
  IN /\ entries' = after
     /\ last' = [op |-> "get", key |-> k, ret |-> r, n |-> 0,
                 gone |-> Gone(entries, after)]
     /\ touchOrder' = IF r \in Values THEN Touch(touchOrder, k)
                      ELSE IF PastExpiry(written, k, now) THEN Untouch(touchOrder, {k})
                      ELSE touchOrder
     /\ written' = IF PastExpiry(written, k, now) THEN Forget(written, {k}) ELSE written
     /\ flip' = ~flip
     /\ UNCHANGED <<capacity, enabled, now>>
     /\ UNCHANGED <<keyVars, seqVars, appVars, srvVars>>

Set(k, v) ==
  LET after == setEntries(entries, enabled, capacity, TTL, k, v, now)
  IN /\ entries' = after
     /\ last' = [op |-> "set", key |-> k, ret |-> Done, n |-> 0,
                 gone |-> Gone(entries, after)]
     /\ touchOrder' = IF enabled
                      THEN Touch(Untouch(touchOrder, Gone(entries, after)), k)
                      ELSE touchOrder
     /\ written' = IF enabled
                   THEN [Forget(written, Gone(entries, after))
                           EXCEPT ![k] = [val |-> v, at |-> now]]
                   ELSE written
     /\ flip' = ~flip
     /\ UNCHANGED <<capacity, enabled, now>>
     /\ UNCHANGED <<keyVars, seqVars, appVars, srvVars>>

Delete(k) ==
  LET after == deleteEntries(entries, k)
  IN /\ entries' = after
     /\ last' = [op |-> "delete", key |-> k, ret |-> Done, n |-> 0,
                 gone |-> Gone(entries, after)]
     /\ written' = Forget(written, {k})
     /\ touchOrder' = Untouch(touchOrder, {k})
     /\ flip' = ~flip
     /\ UNCHANGED <<capacity, enabled, now>>
     /\ UNCHANGED <<keyVars, seqVars, appVars, srvVars>>

Clear ==
  LET after == clearEntries(entries)
  IN /\ entries' = after
     /\ last' = [op |-> "clear", key |-> NoKey, ret |-> Done, n |-> 0,
                 gone |-> Gone(entries, after)]
     /\ written' = Forget(written, CacheKeys)
     /\ touchOrder' = <<>>
     /\ flip' = ~flip
     /\ UNCHANGED <<capacity, enabled, now>>
     /\ UNCHANGED <<keyVars, seqVars, appVars, srvVars>>

Size ==
  /\ last' = [op |-> "size", key |-> NoKey, ret |-> Done, n |-> size(entries),
              gone |-> {}]
  /\ flip' = ~flip
  /\ UNCHANGED <<capacity, entries, enabled, now, touchOrder, written>>
  /\ UNCHANGED <<keyVars, seqVars, appVars, srvVars>>

SetEnabled(flag) ==
  LET after == setEnabledEntries(entries, flag)
  IN /\ enabled' = flag
     /\ entries' = after
     /\ last' = [op |-> "setEnabled", key |-> NoKey, ret |-> Done, n |-> 0,
                 gone |-> Gone(entries, after)]
     /\ written' = IF flag THEN written ELSE Forget(written, CacheKeys)
     /\ touchOrder' = IF flag THEN touchOrder ELSE <<>>
     /\ flip' = ~flip
     /\ UNCHANGED <<capacity, now>>
     /\ UNCHANGED <<keyVars, seqVars, appVars, srvVars>>

GenerateKey(base, params) ==
  /\ last' = [op |-> "generateKey", key |-> generateKey(base, params), ret |-> Done,
              n |-> 0, gone |-> {}]
  /\ flip' = ~flip
  /\ UNCHANGED <<capacity, entries, enabled, now, touchOrder, written>>
  /\ UNCHANGED <<keyVars, seqVars, appVars, srvVars>>

AdvanceTime ==
  /\ now < MaxTime
  /\ now' = now + 1
  /\ UNCHANGED <<capacity, entries, enabled, touchOrder, written, last, flip>>
  /\ UNCHANGED <<keyVars, seqVars, appVars, srvVars>>

CacheNext ==
  \/ \E k \in CacheKeys : Get(k)
  \/ \E k \in CacheKeys, v \in Values : Set(k, v)
  \/ \E k \in CacheKeys : Delete(k)
  \/ Clear
  \/ Size
  \/ \E flag \in BOOLEAN : SetEnabled(flag)
  \/ \E params \in KeyParams : GenerateKey(SearchBase, params)
  \/ AdvanceTime

CacheSpec == CacheInit /\ [][CacheNext]_vars

(***************************************************************************)
(* Properties of the cache (CacheSpec).                                    *)
(***************************************************************************)
\* the call made by this step
GetCall(k) == flip' # flip /\ last'.op = "get" /\ last'.key = k
SetCall == flip' # flip /\ last'.op = "set"
DisableCall == flip' # flip /\ last'.op = "setEnabled" /\ ~enabled'

RECURSIVE PosIn(_, _)
\* index of k in the history of touches, 0 when k was never touched
PosIn(order, k) ==
  IF order = <<>> THEN 0
  ELSE IF order[Len(order)] = k THEN Len(order)
  ELSE PosIn(SubSeq(order, 1, Len(order) - 1), k)

\* the stored key whose latest touch is the oldest
LeastRecent(e, order) ==
  CHOOSE k \in StoredKeys(e) : \A j \in StoredKeys(e) : PosIn(order, k) <= PosIn(order, j)

\* C1: the number of stored entries never exceeds the capacity the cache
\* was built with, whatever calls were made.
C1_SizeWithinCapacity == size(entries) <= capacity

\* a set has just evicted an entry of a full cache
C1_Witness ==
  /\ last.op = "set"
  /\ last.gone # {}
  /\ size(entries) = capacity

\* a set of a key that is not stored, on a full enabled cache
EvictingSet == SetCall /\ enabled /\ ~has(entries, last'.key) /\ size(entries) = capacity

\* exactly one entry goes, the one touched least recently
OldestEvicted ==
  EvictingSet =>
    /\ Gone(entries, entries') = {LeastRecent(entries, touchOrder)}
    /\ StoredKeys(entries') = (StoredKeys(entries) \ Gone(entries, entries')) \cup {last'.key}
    /\ size(entries') = size(entries)

\* the call before the set was a successful get of a key that is still stored
ReadLast == last.op = "get" /\ last.ret \in Values /\ has(entries, last.key)

\* C2 as stated: on a set of a new key into a full cache exactly the least
\* recently touched entry is evicted, and a key read with get after every
\* other key was last touched is never the one evicted.
C2_Original ==
  [][/\ OldestEvicted
     /\ (EvictingSet /\ ReadLast) => has(entries', last.key)]_vars

\* C2 amended: on a set of a new key into a full cache exactly the least
\* recently touched entry is evicted, and a key read with get after every
\* other key was last touched is not the one evicted when another key is
\* stored (capacity >= 2).
C2_LruEviction ==
  [][/\ OldestEvicted
     /\ (EvictingSet /\ ReadLast /\ size(entries) >= 2) => has(entries', last.key)]_vars

\* a set has just evicted one of two or more entries
C2_Witness ==
  /\ last.op = "set"
  /\ Cardinality(last.gone) = 1
  /\ capacity >= 2
  /\ size(entries) = capacity
  /\ entries[Len(entries)].key = last.key

\* C3: get never returns a value whose expiry (the time of its set plus the
\* ttl) has passed; a get of a stored entry past its expiry returns the miss
\* sentinel and removes the entry, so the size drops by one.
C3_NoExpiredRead ==
  [][\A k \in CacheKeys :
       GetCall(k) =>
         /\ (last'.ret # Miss) => (written[k] # NoSet /\ ~PastExpiry(written, k, now))
         /\ (has(entries, k) /\ PastExpiry(written, k, now)) =>
              /\ last'.ret = Miss
              /\ ~has(entries', k)
              /\ size(entries') = size(entries) - 1]_vars

\* a get has just purged an expired entry
C3_Witness ==
  /\ last.op = "get"
  /\ last.ret = Miss
  /\ last.gone = {last.key}

\* C4: with the cache enabled, a get of k before the ttl of the latest set
\* of k has elapsed, with no delete, clear, disable or eviction of k since
\* that set, returns the value of that set.
C4_SetGetRoundTrip ==
  [][\A k \in CacheKeys :
       (GetCall(k) /\ enabled /\ written[k] # NoSet /\ now < written[k].at + TTL)
         => last'.ret = written[k].val]_vars

\* a get has just returned the value of a set made after time 0, at a later time
C4_Witness ==
  /\ last.op = "get"
  /\ last.ret \in Values
  /\ written[last.key].val = last.ret
  /\ written[last.key].at > 0
  /\ now > written[last.key].at

\* C5: while disabled every get misses and every set leaves the entries
\* unchanged; disabling empties the cache at once, so no get returns a key
\* whose latest set came before the disable.
C5_DisabledCache ==
  [][/\ \A k \in CacheKeys :
          GetCall(k) => /\ ~enabled => last'.ret = Miss
                        /\ written[k] = NoSet => last'.ret = Miss
     /\ (SetCall /\ ~enabled) => entries' = entries
     /\ DisableCall => entries' = <<>>]_vars

\* a disable has just emptied a cache that held entries
C5_Witness ==
  /\ last.op = "setEnabled"
  /\ ~enabled
  /\ last.gone # {}

MaxParams == 2     \* parameters per mapping

ParamNames == {<<"q">>, <<"q", "u">>, <<"x">>}
ParamValues == {<<"a">>, <<"1">>}
Bases == {<<"s">>, <<"s", "e">>}

Names(pairs) == {pairs[j].name : j \in 1..Len(pairs)}

PairSet(pairs) == {pairs[j] : j \in 1..Len(pairs)}

\* obj[name] = value
put(pairs, name, value) ==
  IF name \in Names(pairs)
  THEN [j \in 1..Len(pairs) |->
          IF pairs[j].name = name THEN [name |-> name, value |-> value] ELSE pairs[j]]
  ELSE Append(pairs, [name |-> name, value |-> value])

KeyInit ==
  /\ AppIdle
  /\ SrvIdle
  /\ CacheIdle
  /\ SeqIdle
  /\ gkBase = <<>>
  /\ gkA \in {Absent, Params(<<>>)}
  /\ gkB \in {Absent, Params(<<>>)}
  /\ gkKeys = <<>>

PutA(name, value) ==
  /\ gkKeys = <<>>
  /\ gkA.given
  /\ name \in Names(gkA.pairs) \/ Len(gkA.pairs) < MaxParams
  /\ gkA' = Params(put(gkA.pairs, name, value))
  /\ UNCHANGED <<gkBase, gkB, gkKeys>>
  /\ UNCHANGED <<cacheVars, seqVars, appVars, srvVars>>

PutB(name, value) ==
  /\ gkKeys = <<>>
  /\ gkB.given
  /\ name \in Names(gkB.pairs) \/ Len(gkB.pairs) < MaxParams
  /\ gkB' = Params(put(gkB.pairs, name, value))
  /\ UNCHANGED <<gkBase, gkA, gkKeys>>
  /\ UNCHANGED <<cacheVars, seqVars, appVars, srvVars>>

\* generateKey(base, a) and generateKey(base, b)
GenerateKeys(base) ==
  /\ gkKeys = <<>>
  /\ gkBase' = base
  /\ gkKeys' = <<generateKey(base, gkA), generateKey(base, gkB)>>
  /\ UNCHANGED <<gkA, gkB>>
  /\ UNCHANGED <<cacheVars, seqVars, appVars, srvVars>>

KeyNext ==
  \/ \E name \in ParamNames, value \in ParamValues : PutA(name, value)
  \/ \E name \in ParamNames, value \in ParamValues : PutB(name, value)
  \/ \E base \in Bases : GenerateKeys(base)

KeySpec == KeyInit /\ [][KeyNext]_vars

\* C6: for one base, two parameter mappings holding the same name/value
\* pairs give the same key, whatever the order the pairs were inserted in.
C6_KeyOrderIndependent ==
  (gkKeys # <<>> /\ PairSet(gkA.pairs) = PairSet(gkB.pairs)) => gkKeys[1] = gkKeys[2]

\* two mappings with the same two pairs in different orders got the same key
C6_Witness ==
  /\ gkKeys # <<>>
  /\ Len(gkA.pairs) >= 2
  /\ gkA.pairs # gkB.pairs
  /\ PairSet(gkA.pairs) = PairSet(gkB.pairs)
  /\ gkKeys[1] = gkKeys[2]

(***************************************************************************)
(* checkMultipleDomainStatus(domains): the sequential batch (SeqSpec).     *)
(* One action per stretch of code between two awaits.                      *)
(***************************************************************************)
MaxDomains == 3    \* length of the domains argument

DELAY_MS == 1200

DomainNames == {"a.com", "b.net"}

BodyKinds == {"available", "taken", "empty"}

\* the body /api/status answers with for domain d
statusBody(d, kind) ==
  IF kind = "available"
  THEN [status |-> <<[domain |-> d, status |-> "inactive", summary |-> "available"]>>]
  ELSE IF kind = "taken"
  THEN [status |-> <<[domain |-> d, status |-> "active", summary |-> "taken"]>>]
  ELSE [status |-> <<>>]

\* the messages the response interceptor throws
ErrorMessages ==
  { "Error del servidor. Por favor, intenta nuevamente.",
    "Demasiadas solicitudes. Por favor, espera un momento." }

DomainLists == UNION {[1..n -> DomainNames] : n \in 0..MaxDomains}

\* a buggy placeholder: the error message is dropped
placeholderNoError(d, msg) ==
  [status |-> <<[domain |-> d, status |-> "", summary |-> ""]>>]

\* the result pushed for a lookup that threw
placeholder(d, msg) ==
  [status |-> <<[domain |-> d, status |-> "", summary |-> "", error |-> msg]>>]

\* a buggy catch: the failed lookup leaves no result
pushFailedSkip(res, d, msg) == res

\* results after the catch block of lookup d
pushFailed(res, d, msg) == Append(res, placeholder(d, msg))

\* results after a lookup that returned
pushResult(res, result) == Append(res, result)

\* a buggy throttle: a delay follows every lookup
needsDelayAlways(i, n) == i < n

\* the test before delay(1200): not after the last domain
needsDelay(i, n) == i < n - 1

NoData == [status |-> <<>>]

SeqInit ==
  /\ AppIdle
  /\ SrvIdle
  /\ CacheIdle
  /\ KeyIdle
  /\ domains \in DomainLists
  /\ pc = "idle"
  /\ idx = 0
  /\ results = <<>>
  /\ outcomes = <<>>
  /\ log = <<>>
  /\ inflight = 0
  /\ waited = 0

\* the loop test at index i: issue the lookup of domains[i] or return
LoopFrom(i) ==
  IF i < Len(domains)
  THEN /\ pc' = "lookup"
       /\ log' = Append(log, <<"issue", domains[i + 1]>>)
       /\ inflight' = inflight + 1
  ELSE /\ pc' = "returned"
       /\ UNCHANGED <<log, inflight>>

\* after the try/catch of index idx: delay, or i++ and the loop test
AfterLookup(settled) ==
  IF needsDelay(idx, Len(domains))
  THEN /\ pc' = "delay"
       /\ log' = Append(log, settled)
       /\ inflight' = inflight - 1
       /\ UNCHANGED idx
  ELSE /\ idx' = idx + 1
       /\ IF idx + 1 < Len(domains)
          THEN /\ pc' = "lookup"
               /\ log' = log \o <<settled, <<"issue", domains[idx + 2]>>>>
               /\ UNCHANGED inflight
          ELSE /\ pc' = "returned"
               /\ log' = Append(log, settled)
               /\ inflight' = inflight - 1

\* the call: results = [], i = 0, up to the first await
Call ==
  /\ pc = "idle"
  /\ results' = <<>>
  /\ idx' = 0
  /\ LoopFrom(0)
  /\ UNCHANGED <<domains, outcomes, waited>>
  /\ UNCHANGED <<cacheVars, keyVars, appVars, srvVars>>

\* checkDomainStatus(domains[i]) returned response.data
LookupFulfilled(kind) ==
  LET d == domains[idx + 1]
      body == statusBody(d, kind)
  IN /\ pc = "lookup"
     /\ results' = pushResult(results, body)
     /\ outcomes' = Append(outcomes, [ok |-> TRUE, domain |-> d, data |-> body, msg |-> ""])
     /\ AfterLookup(<<"settle", d>>)
     /\ UNCHANGED <<domains, waited>>
     /\ UNCHANGED <<cacheVars, keyVars, appVars, srvVars>>

\* checkDomainStatus(domains[i]) threw an Error with this message
LookupRejected(msg) ==
  LET d == domains[idx + 1]
  IN /\ pc = "lookup"
     /\ results' = pushFailed(results, d, msg)
     /\ outcomes' = Append(outcomes, [ok |-> FALSE, domain |-> d, data |-> NoData, msg |-> msg])
     /\ AfterLookup(<<"settle", d>>)
     /\ UNCHANGED <<domains, waited>>
     /\ UNCHANGED <<cacheVars, keyVars, appVars, srvVars>>

\* the timer of delay(1200) fired: i++ and the loop test
DelayElapsed ==
  /\ pc = "delay"
  /\ waited' = waited + DELAY_MS
  /\ idx' = idx + 1
  /\ IF idx + 1 < Len(domains)
     THEN /\ pc' = "lookup"
          /\ log' = log \o <<<<"delay", "">>, <<"issue", domains[idx + 2]>>>>
          /\ inflight' = inflight + 1
     ELSE /\ pc' = "returned"
          /\ log' = Append(log, <<"delay", "">>)
          /\ UNCHANGED inflight
  /\ UNCHANGED <<domains, results, outcomes>>
  /\ UNCHANGED <<cacheVars, keyVars, appVars, srvVars>>

SeqNext ==
  \/ Call
  \/ \E kind \in BodyKinds : LookupFulfilled(kind)
  \/ \E msg \in ErrorMessages : LookupRejected(msg)
  \/ DelayElapsed

SeqSpec == SeqInit /\ [][SeqNext]_vars

(***************************************************************************)
(* Properties of the sequential batch (SeqSpec).                           *)
(***************************************************************************)
RECURSIVE ExpectedLog(_)
\* issue, settle, delay, issue, settle, delay, ..., issue, settle
ExpectedLog(ds) ==
  IF ds = <<>> THEN <<>>
  ELSE <<<<"issue", Head(ds)>>, <<"settle", Head(ds)>>>>
       \o (IF Tail(ds) = <<>> THEN <<>> ELSE <<<<"delay", "">>>>)
       \o ExpectedLog(Tail(ds))

IsPrefix(a, b) == Len(a) <= Len(b) /\ SubSeq(b, 1, Len(a)) = a

\* the domains of the lookups issued, in order
Issued == LET is == SelectSeq(log, LAMBDA ev : ev[1] = "issue")
          IN [j \in 1..Len(is) |-> is[j][2]]

\* C8: the call never ends but by returning; it returns a list as long as
\* domains whose position i is the outcome of the lookup of domains[i],
\* whichever lookups failed, and every domain's lookup was issued.
C8_BatchAligned ==
  /\ pc # "returned" => ENABLED SeqNext
  /\ pc \in {"idle", "lookup", "delay", "returned"}
  /\ Len(results) = Len(outcomes)
  /\ pc = "returned" =>
       /\ Len(results) = Len(domains)
       /\ Issued = domains
       /\ \A j \in 1..Len(domains) :
            /\ outcomes[j].domain = domains[j]
            /\ outcomes[j].ok => results[j] = outcomes[j].data
            /\ ~outcomes[j].ok => /\ Len(results[j].status) = 1
                                  /\ results[j].status[1].domain = domains[j]

\* a batch of two or more domains returned after every lookup failed
C8_Witness ==
  /\ pc = "returned"
  /\ Len(domains) >= 2
  /\ Len(results) = Len(domains)
  /\ \A j \in 1..Len(outcomes) : ~outcomes[j].ok

\* C9: the position of a failed lookup holds a placeholder for its domain
\* with the error message and empty status and summary; the position of a
\* lookup that returned holds what it returned.
C9_PlaceholderOnFailure ==
  \A j \in 1..Len(results) :
    /\ j <= Len(outcomes)
    /\ outcomes[j].ok => results[j] = outcomes[j].data
    /\ ~outcomes[j].ok =>
         results[j].status = <<[domain |-> domains[j], status |-> "", summary |-> "",
                                error |-> outcomes[j].msg]>>

\* [d1, d2, d3] returned with the lookup of d2 failed and the others not
C9_Witness ==
  /\ pc = "returned"
  /\ Len(domains) = 3
  /\ outcomes[1].ok /\ Len(results[1].status) = 1
  /\ ~outcomes[2].ok
  /\ outcomes[3].ok /\ Len(results[3].status) = 1

MaxTlds == 1       \* the first MaxTlds entries of COMMON_TLDS are configured
MaxCalls == 2      \* handler calls that issue lookups in one run

Space == " "

COMMON_TLDS ==
  << <<"c", "o", "m">>, <<"n", "e", "t">>, <<"o", "r", "g">>, <<"i", "o">>,
     <<"c", "o">>, <<"a", "p", "p">>, <<"d", "e", "v">>, <<"t", "e", "c", "h">>,
     <<"a", "i">>, <<"s", "h", "o", "p">>, <<"s", "t", "o", "r", "e">> >>

Tlds == SubSeq(COMMON_TLDS, 1, MaxTlds)

RECURSIVE trimStart(_)
trimStart(s) ==
  IF s # <<>> /\ Head(s) = Space THEN trimStart(Tail(s)) ELSE s

RECURSIVE trimEnd(_)
trimEnd(s) ==
  IF s # <<>> /\ s[Len(s)] = Space THEN trimEnd(SubSeq(s, 1, Len(s) - 1)) ELSE s

\* String.prototype.trim
trim(s) == trimEnd(trimStart(s))

\* replace(/\s+/g, '')
removeWhitespace(s) == SelectSeq(s, LAMBDA c : c # Space)

queryBase(q) == removeWhitespace(trim(q))

\* COMMON_TLDS.map(tld => `${queryBase}.${tld}`)
tldQueries(q) == [j \in 1..Len(Tlds) |-> queryBase(q) \o <<".">> \o Tlds[j]]

\* a buggy candidate list: the bare base query is left out
additionalQueriesNoBase(q) == tldQueries(q)

\* App.js: [...COMMON_TLDS.map(...), queryBase]
additionalQueries(q) == tldQueries(q) \o <<queryBase(q)>>

\* popup.js: commonTLDs.map(tld => `${queryBase}.${tld}`)
popupAdditionalQueries(q) == tldQueries(q)

DomainsOf(list) == {list[j].domain : j \in 1..Len(list)}

RECURSIVE flatten(_)
\* the results of the fulfilled searches, one list after the other
flatten(settled) ==
  IF settled = <<>> THEN <<>>
  ELSE (IF Head(settled).state = "fulfilled" THEN Head(settled).value ELSE <<>>)
       \o flatten(Tail(settled))

RECURSIVE pushUnique(_, _)
\* forEach: push the result unless allDomains has its domain
pushUnique(combined, list) ==
  IF list = <<>> THEN combined
  ELSE pushUnique(IF Head(list).domain \in DomainsOf(combined) THEN combined
                  ELSE Append(combined, Head(list)),
                  Tail(list))

\* combinedResults of handleExpandSearch
combineResults(settled) == pushUnique(<<>>, flatten(settled))

NoStatus == [status |-> "", summary |-> ""]

\* a response whose body has no status list
hasStatusList(body) == "status" \in DOMAIN body

\* App.js v2: statusResponses[index]?.status?.[0] || {}
\* (v1 and popup.js: read only when hasStatusList holds)
statusData(body) ==
  IF hasStatusList(body) /\ Len(body.status) >= 1
  THEN [status |-> body.status[1].status, summary |-> body.status[1].summary]
  ELSE NoStatus

\* {...result, status: statusData.status || '', summary: statusData.summary || ''}
withStatus(result, data) ==
  [domain |-> result.domain, zone |-> result.zone,
   status |-> data.status, summary |-> data.summary]

\* results.map((result, index) => ...) over the status responses
combineStatus(list, responses) ==
  [j \in 1..Len(list) |-> withStatus(list[j], statusData(responses[j]))]

\* a buggy merge: the new results are appended unfiltered
mergeResultsAll(existing, batch) == existing \o batch

\* [...results, ...newResults.filter(r => !combinedDomains.has(r.domain))]
mergeResults(existing, batch) ==
  existing \o SelectSeq(batch, LAMBDA r : r.domain \notin DomainsOf(existing))

(***************************************************************************)
(* Presentation of a result.                                               *)
(***************************************************************************)
getDomainStatusClass(summary) ==
  IF summary = "" THEN ""
  ELSE IF summary = "inactive" THEN "available"
  ELSE "unavailable"

\* DOMAIN_STATUS_TEXT[summary] || DOMAIN_STATUS_TEXT.default
getDomainStatusText(summary) ==
  IF summary = "active" THEN "No disponible (Registrado)"
  ELSE IF summary \in {"inactive", "undelegated", "available"} THEN "Disponible"
  ELSE "Estado desconocido"

\* popup.js
popupStatusText(summary) ==
  IF summary = "" THEN "Desconocido"
  ELSE IF summary = "inactive" THEN "Disponible"
  ELSE "No disponible"

\* result.summary === 'inactive' ? <FaRegCheckCircle /> : <FaRegTimesCircle />
statusIcon(summary) == IF summary = "inactive" THEN "check" ELSE "cross"

\* result.summary === 'inactive' && <div className="search-buttons">
searchButtons(summary) == summary = "inactive"

\* the line of exportToCSV for one result
csvLine(result) ==
  [domain |-> result.domain, text |-> getDomainStatusText(result.summary),
   zone |-> result.zone]

\* the rows of the results list as rendered
renderRow(result) ==
  [domain |-> result.domain,
   class |-> getDomainStatusClass(result.summary),
   icon |-> statusIcon(result.summary),
   text |-> getDomainStatusText(result.summary),
   buttons |-> searchButtons(result.summary)]

(***************************************************************************)
(* The web client (AppSpec, version 2; LegacySpec, version 1).  A handler  *)
(* call suspended at an await is a task: [kind, pc, q, key, captured,      *)
(* queries, settled, found, responses, newer].  captured is the results    *)
(* state of the render the handler was created in; newer is history, the   *)
(* query of the latest search submitted after the call (RaceSpec).         *)
(***************************************************************************)
A1 == [domain |-> "a.com", zone |-> "com"]
A2 == [domain |-> "a.com", zone |-> "net"]
B1 == [domain |-> "b.net", zone |-> "net"]

\* what a search lookup may answer with
SearchAnswers == {<<>>, <<B1, A2>>, <<A1, A2>>}

\* what the user may type into the empty field
Inputs == {<<"x", " ", "y">>}

ServerError == "Error del servidor. Por favor, intenta nuevamente."
V1SearchError == "Failed to search domains. Please try again."
V1ExpandError == "Failed to expand domain search. Please try again."

Pending == [state |-> "pending"]
Fulfilled(v) == [state |-> "fulfilled", value |-> v]
Rejected(msg) == [state |-> "rejected", reason |-> msg]

SearchOutcomes == {Fulfilled(a) : a \in SearchAnswers} \cup {Rejected(ServerError)}

PendingBody == [pending |-> TRUE]

\* a well-formed response body that has no status list
NoStatusBody == [message |-> "ok"]

\* the domains the upstream reports as registered
Registered == {"b.net"}

upstreamKind(d) == IF d \in Registered THEN "taken" ELSE "available"

\* a status lookup that returns answers with the upstream's report, with an
\* empty status list, or with no status list
StatusKinds == {"report", "empty", "missing"}

\* the body the version 1 server passes on from the upstream
domainrBody(d, kind) ==
  IF kind = "available"
  THEN [status |-> <<[domain |-> d, status |-> "undelegated inactive",
                      summary |-> "inactive"]>>]
  ELSE IF kind = "taken"
  THEN [status |-> <<[domain |-> d, status |-> "active", summary |-> "active"]>>]
  ELSE [status |-> <<>>]

responseBody(ver, d, kind) ==
  IF kind = "missing" THEN NoStatusBody
  ELSE IF kind = "empty" THEN [status |-> <<>>]
  ELSE IF ver = 2 THEN statusBody(d, upstreamKind(d))
  ELSE domainrBody(d, upstreamKind(d))

removeAt(seq, i) == SubSeq(seq, 1, i - 1) \o SubSeq(seq, i + 1, Len(seq))

\* a buggy test: a stored entry counts as a hit whatever its expiry
cacheHitNoExpiry(e, en, k, t) == en /\ has(e, k)

\* cache.get(key) returned a value
cacheHit(e, en, k, t) == en /\ has(e, k) /\ ~isExpired(entryOf(e, k), t)

cacheRest == <<capacity, enabled, now, touchOrder, written, last, flip>>

newTask(kind, q, key, captured, queries) ==
  [kind |-> kind, pc |-> "searches", q |-> q, key |-> key, captured |-> captured,
   queries |-> queries, settled |-> [j \in 1..Len(queries) |-> Pending],
   found |-> <<>>, responses |-> <<>>, newer |-> <<>>]

\* history: the calls in progress when a search for q is submitted have a
\* newer search, for q, from then on
superseded(ts, q) == [j \in 1..Len(ts) |-> [ts[j] EXCEPT !.newer = q]]

AppInit ==
  /\ KeyIdle
  /\ SeqIdle
  /\ SrvIdle
  /\ capacity = MaxCapacity
  /\ entries = <<>>
  /\ enabled = TRUE
  /\ now = 0
  /\ touchOrder = <<>>
  /\ written = [k \in CacheKeys |-> NoSet]
  /\ last = [op |-> "new", key |-> NoKey, ret |-> Done, n |-> 0, gone |-> {}]
  /\ flip = FALSE
  /\ version = 2
  /\ query = <<>>
  /\ currentQuery = <<>>
  /\ uiResults = <<>>
  /\ loading = FALSE
  /\ error = ""
  /\ expanded = FALSE
  /\ tasks = <<>>
  /\ calls = 0
  /\ ended = NoTask

\* onChange of the input field
setQuery(q) ==
  /\ query # q
  /\ query' = q
  /\ ended' = NoTask
  /\ UNCHANGED <<version, currentQuery, uiResults, loading, error, expanded, tasks, calls>>
  /\ UNCHANGED <<cacheVars, keyVars, seqVars, srvVars>>

\* handleSearch up to its first await, or to its return; older is the
\* calls in progress
handleSearchFrom(older) ==
  LET searchQuery == trim(query)
      key == IF version = 2 THEN searchKey(searchQuery) ELSE NoKey
      hit == version = 2 /\ cacheHit(entries, enabled, key, now)
  IN /\ searchQuery # <<>> /\ ~hit => calls < MaxCalls
     /\ IF searchQuery = <<>>
        THEN /\ ended' = [kind |-> "search", outcome |-> "ignored", task |-> NoTask]
             /\ UNCHANGED <<uiResults, loading, error, expanded, tasks, entries, calls>>
        ELSE /\ entries' = IF version = 2 THEN getEntries(entries, enabled, key, now)
                           ELSE entries
             /\ IF hit
                THEN /\ uiResults' = entryOf(entries, key).value
                     /\ expanded' = FALSE
                     /\ ended' = [kind |-> "search", outcome |-> "cached",
                                  task |-> NoTask]
                     /\ tasks' = older
                     /\ UNCHANGED <<loading, error, calls>>
                ELSE /\ calls' = calls + 1
                     /\ loading' = TRUE
                     /\ error' = ""
                     /\ uiResults' = <<>>
                     /\ expanded' = FALSE
                     /\ tasks' = Append(older,
                          newTask("search",
                                  IF version = 2 THEN searchQuery ELSE query,
                                  key, <<>>, <<searchQuery>>))
                     /\ ended' = NoTask
     /\ UNCHANGED <<version, query, currentQuery>>
     /\ UNCHANGED <<cacheRest, keyVars, seqVars, srvVars>>

handleSearch == handleSearchFrom(tasks)

\* the button "Listar mas dominios" is rendered
expandButton == ~loading /\ uiResults # <<>> /\ ~expanded

\* handleExpandSearch up to its first await, or to its return
handleExpandSearch ==
  /\ expandButton
  /\ IF loading \/ trim(query) = <<>>
     THEN /\ ended' = [kind |-> "expand", outcome |-> "ignored", task |-> NoTask]
          /\ UNCHANGED <<loading, error, tasks, calls>>
     ELSE /\ calls < MaxCalls
          /\ calls' = calls + 1
          /\ loading' = TRUE
          /\ error' = ""
          /\ tasks' = Append(tasks,
               newTask("expand", query, NoKey, uiResults, additionalQueries(query)))
          /\ ended' = NoTask
  /\ UNCHANGED <<version, query, currentQuery, uiResults, expanded>>
  /\ UNCHANGED <<cacheVars, keyVars, seqVars, srvVars>>

\* the handler returns through finally { setLoading(false) }
Finish(i, t, outcome) ==
  /\ tasks' = removeAt(tasks, i)
  /\ ended' = [kind |-> t.kind, outcome |-> outcome, task |-> t]
  /\ loading' = FALSE

\* catch (err) { setError(...) }
Fail(i, t, msg) ==
  /\ Finish(i, t, "error")
  /\ error' = msg
  /\ UNCHANGED <<uiResults, expanded, entries>>

\* the status lookups of list are started; the search responses are read
\* no more
StartStatus(i, t, list) ==
  /\ tasks' = [tasks EXCEPT ![i] =
       [t EXCEPT !.found = list, !.pc = "status",
                 !.queries = <<>>, !.settled = <<>>,
                 !.responses = IF version = 2 THEN <<>>
                               ELSE [j \in 1..Len(list) |-> PendingBody]]]
  /\ ended' = [kind |-> t.kind, outcome |-> "searched", task |-> t, at |-> i]
  /\ UNCHANGED <<uiResults, loading, error, expanded, entries>>

\* the code after the status responses are in
Complete(i, t) ==
  IF version = 1 /\ \E j \in 1..Len(t.responses) : ~hasStatusList(t.responses[j])
  THEN Fail(i, t, IF t.kind = "search" THEN V1SearchError ELSE V1ExpandError)
  ELSE LET combined == combineStatus(t.found, t.responses)
       IN IF t.kind = "search"
          THEN /\ entries' = IF version = 2
                             THEN setEntries(entries, enabled, capacity, TTL,
                                             t.key, combined, now)
                             ELSE entries
               /\ uiResults' = combined
               /\ Finish(i, t, "results")
               /\ UNCHANGED <<error, expanded>>
          ELSE /\ uiResults' = mergeResults(t.captured, combined)
               /\ expanded' = TRUE
               /\ Finish(i, t, "merged")
               /\ UNCHANGED <<error, entries>>

\* the searches of an expansion are all in
AfterSearches(i, t) ==
  LET combined == combineResults(t.settled)
  IN IF combined = <<>>
     THEN /\ Finish(i, t, "nothing")
          /\ UNCHANGED <<uiResults, error, expanded, entries>>
     ELSE StartStatus(i, t, combined)

\* searchDomains(queries[j]) of task i settled
searchSettled(i, j, outcome) ==
  LET t == tasks[i]
      t2 == [t EXCEPT !.settled[j] = outcome]
      rejected == outcome.state = "rejected"
      allIn == \A k \in 1..Len(t2.settled) : t2.settled[k] # Pending
  IN /\ t.pc = "searches"
     /\ t.settled[j] = Pending
     /\ IF t.kind = "search"
        THEN IF rejected
             THEN Fail(i, t2, IF version = 2 THEN outcome.reason ELSE V1SearchError)
             ELSE IF outcome.value = <<>>
             THEN /\ Finish(i, t2, "empty")
                  /\ UNCHANGED <<uiResults, error, expanded, entries>>
             ELSE StartStatus(i, t2, outcome.value)
        ELSE IF version = 1 /\ rejected
             THEN Fail(i, t2, V1ExpandError)
             ELSE IF allIn
             THEN AfterSearches(i, t2)
             ELSE /\ tasks' = [tasks EXCEPT ![i] = t2]
                  /\ ended' = NoTask
                  /\ UNCHANGED <<uiResults, loading, error, expanded, entries>>
     /\ UNCHANGED <<version, query, currentQuery, calls>>
     /\ UNCHANGED <<cacheRest, keyVars, seqVars, srvVars>>

\* the index of the status lookup of task t that may settle as j
statusInFlight(t, j) ==
  /\ t.pc = "status"
  /\ j \in 1..Len(t.found)
  /\ IF version = 2 THEN j = Len(t.responses) + 1 ELSE t.responses[j] = PendingBody

\* after a status response of task i arrived
AfterStatus(i, t2) ==
  IF version = 2
  THEN IF needsDelay(Len(t2.responses) - 1, Len(t2.found))
       THEN /\ tasks' = [tasks EXCEPT ![i] = [t2 EXCEPT !.pc = "delay"]]
            /\ ended' = NoTask
            /\ UNCHANGED <<uiResults, loading, error, expanded, entries>>
       ELSE Complete(i, t2)
  ELSE IF \E k \in 1..Len(t2.responses) : t2.responses[k] = PendingBody
       THEN /\ tasks' = [tasks EXCEPT ![i] = t2]
            /\ ended' = NoTask
            /\ UNCHANGED <<uiResults, loading, error, expanded, entries>>
       ELSE Complete(i, t2)

\* the status lookup of found[j] of task i returned a body
statusFulfilled(i, j, kind) ==
  LET t == tasks[i]
      body == responseBody(version, t.found[j].domain, kind)
      t2 == [t EXCEPT !.responses = IF version = 2 THEN pushResult(t.responses, body)
                                    ELSE [t.responses EXCEPT ![j] = body]]
  IN /\ statusInFlight(t, j)
     /\ AfterStatus(i, t2)
     /\ UNCHANGED <<version, query, currentQuery, calls>>
     /\ UNCHANGED <<cacheRest, keyVars, seqVars, srvVars>>

\* a buggy batch: a lookup that throws ends the call, the rest is dropped
statusRejectedAbandons(i, j, msg) ==
  /\ statusInFlight(tasks[i], j)
  /\ Fail(i, tasks[i], msg)
  /\ UNCHANGED <<version, query, currentQuery, calls>>
  /\ UNCHANGED <<cacheRest, keyVars, seqVars, srvVars>>

\* the status lookup of found[j] of task i threw
statusRejected(i, j, msg) ==
  LET t == tasks[i]
      t2 == [t EXCEPT !.responses = pushFailed(t.responses, t.found[j].domain, msg)]
  IN /\ statusInFlight(t, j)
     /\ IF version = 2
        THEN AfterStatus(i, t2)
        ELSE Fail(i, t, IF t.kind = "search" THEN V1SearchError ELSE V1ExpandError)
     /\ UNCHANGED <<version, query, currentQuery, calls>>
     /\ UNCHANGED <<cacheRest, keyVars, seqVars, srvVars>>

\* the timer of delay(1200) of task i fired: the next lookup is issued
statusDelayElapsed(i) ==
  /\ tasks[i].pc = "delay"
  /\ tasks' = [tasks EXCEPT ![i].pc = "status"]
  /\ ended' = NoTask
  /\ UNCHANGED <<version, query, currentQuery, uiResults, loading, error, expanded, calls>>
  /\ UNCHANGED <<cacheVars, keyVars, seqVars, srvVars>>

\* the clock of the cache advances (it is read only while something is stored)
tick ==
  /\ now < MaxTime
  /\ entries # <<>>
  /\ now' = now + 1
  /\ ended' = NoTask
  /\ UNCHANGED <<version, query, currentQuery, uiResults, loading, error, expanded,
                 tasks, calls>>
  /\ UNCHANGED <<capacity, entries, enabled, touchOrder, written, last, flip>>
  /\ UNCHANGED <<keyVars, seqVars, srvVars>>

AppNext ==
  \/ \E q \in Inputs : setQuery(q)
  \/ handleSearch
  \/ handleExpandSearch
  \/ \E i \in 1..Len(tasks) : \E j \in 1..Len(tasks[i].settled) :
       \E outcome \in SearchOutcomes : searchSettled(i, j, outcome)
  \/ \E i \in 1..Len(tasks) : \E j \in 1..Len(tasks[i].found) :
       \E kind \in StatusKinds : statusFulfilled(i, j, kind)
  \/ \E i \in 1..Len(tasks) : \E j \in 1..Len(tasks[i].found) :
       statusRejected(i, j, ServerError)
  \/ \E i \in 1..Len(tasks) : statusDelayElapsed(i)
  \/ tick

AppSpec == AppInit /\ [][AppNext]_vars

\* a lookup in flight settles, a timer that was set fires
Settle ==
  \/ \E i \in 1..Len(tasks) : \E j \in 1..Len(tasks[i].settled) :
       \E outcome \in SearchOutcomes : searchSettled(i, j, outcome)
  \/ \E i \in 1..Len(tasks) : \E j \in 1..Len(tasks[i].found) :
       \E kind \in StatusKinds : statusFulfilled(i, j, kind)
  \/ \E i \in 1..Len(tasks) : \E j \in 1..Len(tasks[i].found) :
       statusRejected(i, j, ServerError)
  \/ \E i \in 1..Len(tasks) : statusDelayElapsed(i)

\* what the user may type when two queries are at hand
RaceInputs == {<<"x", " ", "y">>, <<"y">>}

\* handleSearch, the calls in progress being marked as having a newer search
raceHandleSearch == handleSearchFrom(superseded(tasks, trim(query)))

RaceNext ==
  \/ \E q \in RaceInputs : setQuery(q)
  \/ raceHandleSearch
  \/ handleExpandSearch
  \/ Settle
  \/ tick

\* the web client with two queries and the history of submissions
RaceSpec == AppInit /\ [][RaceNext]_vars

\* the web client when every lookup settles
AppLiveSpec == AppInit /\ [][AppNext]_vars /\ WF_vars(Settle)

\* version 1 of App.js: no cache, Promise.all
LegacyInit ==
  /\ KeyIdle
  /\ SeqIdle
  /\ SrvIdle
  /\ CacheIdle
  /\ version = 1
  /\ query = <<>>
  /\ currentQuery = <<>>
  /\ uiResults = <<>>
  /\ loading = FALSE
  /\ error = ""
  /\ expanded = FALSE
  /\ tasks = <<>>
  /\ calls = 0
  /\ ended = NoTask

LegacyNext ==
  \/ \E q \in Inputs : setQuery(q)
  \/ handleSearch
  \/ handleExpandSearch
  \/ \E i \in 1..Len(tasks) : \E j \in 1..Len(tasks[i].settled) :
       \E outcome \in SearchOutcomes : searchSettled(i, j, outcome)
  \/ \E i \in 1..Len(tasks) : \E j \in 1..Len(tasks[i].found) :
       \E kind \in StatusKinds : statusFulfilled(i, j, kind)
  \/ \E i \in 1..Len(tasks) : \E j \in 1..Len(tasks[i].found) :
       statusRejected(i, j, ServerError)

LegacySpec == LegacyInit /\ [][LegacyNext]_vars

(***************************************************************************)
(* The extension, popup.js (PopupSpec).  An API key is stored.  uiResults  *)
(* is the global searchResults, expanded is isExpanded, loading and error  *)
(* are what showLoading/hideLoading and showError/hideError leave on       *)
(* screen.  Messages are written without accents.                          *)
(***************************************************************************)
PopupNoneFound == "No se encontraron dominios para esta consulta."
PopupSearchError == "Error al buscar dominios. Verifica tu clave API y conexion."
PopupExpandError == "Error al expandir la busqueda. Intentalo de nuevo."

\* a status lookup whose promise was rejected, as its .catch leaves it
FailedBody == [failed |-> TRUE]

PopupInit ==
  /\ KeyIdle
  /\ SeqIdle
  /\ SrvIdle
  /\ CacheIdle
  /\ version = 2
  /\ query = <<>>
  /\ currentQuery = <<>>
  /\ uiResults = <<>>
  /\ loading = FALSE
  /\ error = ""
  /\ expanded = FALSE
  /\ tasks = <<>>
  /\ calls = 0
  /\ ended = NoTask

\* handleSearch of popup.js up to its first await, or to its return
popupHandleSearch ==
  /\ currentQuery' = trim(query)
  /\ IF trim(query) = <<>>
     THEN /\ ended' = [kind |-> "search", outcome |-> "ignored", task |-> NoTask]
          /\ UNCHANGED <<uiResults, loading, error, expanded, tasks, calls>>
     ELSE /\ calls < MaxCalls
          /\ calls' = calls + 1
          /\ uiResults' = <<>>
          /\ expanded' = FALSE
          /\ loading' = TRUE
          /\ error' = ""
          /\ tasks' = Append(tasks,
               newTask("search", trim(query), NoKey, <<>>, <<trim(query)>>))
          /\ ended' = NoTask
  /\ UNCHANGED <<version, query>>
  /\ UNCHANGED <<cacheVars, keyVars, seqVars, srvVars>>

\* the export buttons, the expand button among them, are on screen
popupExpandButton == uiResults # <<>>

\* handleExpandSearch of popup.js up to its first await, or to its return
popupHandleExpandSearch ==
  /\ popupExpandButton
  /\ IF currentQuery = <<>> \/ expanded
     THEN /\ ended' = [kind |-> "expand", outcome |-> "ignored", task |-> NoTask]
          /\ UNCHANGED <<loading, error, tasks, calls>>
     ELSE /\ calls < MaxCalls
          /\ calls' = calls + 1
          /\ loading' = TRUE
          /\ error' = ""
          /\ tasks' = Append(tasks,
               newTask("expand", currentQuery, NoKey, uiResults,
                       popupAdditionalQueries(currentQuery)))
          /\ ended' = NoTask
  /\ UNCHANGED <<version, query, currentQuery, uiResults, expanded>>
  /\ UNCHANGED <<cacheVars, keyVars, seqVars, srvVars>>

\* checkDomainsStatus(list) is called: every lookup is started
popupStartStatus(i, t, list) ==
  /\ tasks' = [tasks EXCEPT ![i] =
       [t EXCEPT !.found = list, !.pc = "status",
                 !.queries = <<>>, !.settled = <<>>,
                 !.responses = [j \in 1..Len(list) |-> PendingBody]]]
  /\ ended' = [kind |-> t.kind, outcome |-> "searched", task |-> t, at |-> i]
  /\ UNCHANGED <<uiResults, loading, error, expanded>>

\* showError(...) and finally { hideLoading() }
popupFail(i, t, msg) ==
  /\ Finish(i, t, "error")
  /\ error' = msg
  /\ UNCHANGED <<uiResults, expanded>>

\* searchDomains(queries[j]) of task i settled
popupSearchSettled(i, j, outcome) ==
  LET t == tasks[i]
      t2 == [t EXCEPT !.settled[j] = outcome]
      rejected == outcome.state = "rejected"
      allIn == \A k \in 1..Len(t2.settled) : t2.settled[k] # Pending
      combined == combineResults(t2.settled)
  IN /\ t.pc = "searches"
     /\ t.settled[j] = Pending
     /\ IF rejected
        THEN popupFail(i, t2, IF t.kind = "search" THEN PopupSearchError
                              ELSE PopupExpandError)
        ELSE IF ~allIn
        THEN /\ tasks' = [tasks EXCEPT ![i] = t2]
             /\ ended' = NoTask
             /\ UNCHANGED <<uiResults, loading, error, expanded>>
        ELSE IF combined # <<>>
        THEN popupStartStatus(i, t2, IF t.kind = "search" THEN outcome.value
                                     ELSE combined)
        ELSE IF t.kind = "search"
        THEN popupFail(i, t2, PopupNoneFound)
        ELSE /\ Finish(i, t2, "nothing")
             /\ UNCHANGED <<uiResults, error, expanded>>
     /\ UNCHANGED <<version, query, currentQuery, calls>>
     /\ UNCHANGED <<cacheVars, keyVars, seqVars, srvVars>>

\* the code after await checkDomainsStatus(...)
popupComplete(i, t) ==
  LET domainsWithStatus == combineStatus(t.found, t.responses)
  IN IF t.kind = "search"
     THEN /\ uiResults' = domainsWithStatus
          /\ Finish(i, t, "results")
          /\ UNCHANGED <<error, expanded>>
     ELSE \* searchResults = [...] assigns to the const searchResults of the
          \* try block: a TypeError, caught
          popupFail(i, t, PopupExpandError)

\* the promise of the status lookup of found[j] of task i settled as body
popupStatusSettled(i, j, body) ==
  LET t == tasks[i]
      t2 == [t EXCEPT !.responses[j] = body]
  IN /\ t.pc = "status"
     /\ j \in 1..Len(t.found)
     /\ t.responses[j] = PendingBody
     /\ IF \E k \in 1..Len(t2.responses) : t2.responses[k] = PendingBody
        THEN /\ tasks' = [tasks EXCEPT ![i] = t2]
             /\ ended' = NoTask
             /\ UNCHANGED <<uiResults, loading, error, expanded>>
        ELSE popupComplete(i, t2)
     /\ UNCHANGED <<version, query, currentQuery, calls>>
     /\ UNCHANGED <<cacheVars, keyVars, seqVars, srvVars>>

\* checkDomainStatus returned data.status[0] || {}, or threw on a body
\* without a status list
popupStatusFulfilled(i, j, kind) ==
  /\ j \in 1..Len(tasks[i].found)
  /\ popupStatusSettled(i, j,
       IF kind = "missing" THEN FailedBody
       ELSE responseBody(1, tasks[i].found[j].domain, kind))

\* a buggy batch: a lookup that throws rejects the whole batch
popupStatusRejectedFails(i, j) ==
  /\ tasks[i].pc = "status"
  /\ j \in 1..Len(tasks[i].found)
  /\ tasks[i].responses[j] = PendingBody
  /\ popupFail(i, tasks[i], IF tasks[i].kind = "search" THEN PopupSearchError
                            ELSE PopupExpandError)
  /\ UNCHANGED <<version, query, currentQuery, calls>>
  /\ UNCHANGED <<cacheVars, keyVars, seqVars, srvVars>>

\* checkDomainStatus threw: the response was not ok, or there was none
popupStatusRejected(i, j) == popupStatusSettled(i, j, FailedBody)

PopupNext ==
  \/ \E q \in Inputs : setQuery(q)
  \/ popupHandleSearch
  \/ popupHandleExpandSearch
  \/ \E i \in 1..Len(tasks) : \E j \in 1..Len(tasks[i].settled) :
       \E outcome \in SearchOutcomes : popupSearchSettled(i, j, outcome)
  \/ \E i \in 1..Len(tasks) : \E j \in 1..Len(tasks[i].found) :
       \E kind \in StatusKinds : popupStatusFulfilled(i, j, kind)
  \/ \E i \in 1..Len(tasks) : \E j \in 1..Len(tasks[i].found) :
       popupStatusRejected(i, j)

PopupSpec == PopupInit /\ [][PopupNext]_vars

(***************************************************************************)
(* Properties of the front ends (AppSpec, LegacySpec, PopupSpec).          *)
(***************************************************************************)
\* a handler call that issued lookups finished, or finished its search
\* phase, in the latest step
StepOf(kind) ==
  /\ ended.kind = kind
  /\ ended.outcome \in {"searched", "nothing", "empty", "results", "merged", "error"}

NonePending(settled) == \A k \in 1..Len(settled) : settled[k] # Pending

FulfilledDomains(settled) ==
  UNION {DomainsOf(settled[k].value) :
           k \in {n \in 1..Len(settled) : settled[n].state = "fulfilled"}}

\* C11: the variant searches of an expansion are all issued at once; its
\* search phase ends only when none is pending, never in an error, and
\* with exactly the domains of the fulfilled searches, whichever failed.
C11_ExpandSettlesAll ==
  /\ \A i \in 1..Len(tasks) :
       tasks[i].kind = "expand" /\ tasks[i].pc = "searches" =>
         /\ Len(tasks[i].queries) >= 1
         /\ Len(tasks[i].settled) = Len(tasks[i].queries)
  /\ StepOf("expand") /\ ended.task.pc = "searches" =>
       /\ NonePending(ended.task.settled)
       /\ ended.outcome # "error"
       /\ ended.outcome = "nothing" => FulfilledDomains(ended.task.settled) = {}
       /\ ended.outcome = "searched" =>
            DomainsOf(tasks[ended.at].found) = FulfilledDomains(ended.task.settled)

\* the candidates of query q as the specification lists them
ExpectedCandidates(q) ==
  LET b == SelectSeq(q, LAMBDA c : c # Space)
      n == Len(Tlds)
  IN [j \in 1..(n + 1) |-> IF j <= n THEN b \o <<".">> \o Tlds[j] ELSE b]

\* C12: the searches an expansion issues are b.t1, ..., b.tn, b in this
\* order, b being the query without whitespace.
C12_Candidates ==
  \A i \in 1..Len(tasks) :
    tasks[i].kind = "expand" /\ tasks[i].pc = "searches" =>
      tasks[i].queries = ExpectedCandidates(tasks[i].q)

RECURSIVE KeepNew(_, _)
\* the items of batch whose domain no item of existing has, in batch order
KeepNew(batch, existing) ==
  IF batch = <<>> THEN <<>>
  ELSE (IF \E k \in 1..Len(existing) : existing[k].domain = Head(batch).domain
        THEN <<>> ELSE <<Head(batch)>>)
       \o KeepNew(Tail(batch), existing)

\* the batch an expansion that finished had produced
BatchOf(t) == combineStatus(t.found, t.responses)

Merged == ended.kind = "expand" /\ ended.outcome = "merged"

NoDuplicate(list) ==
  \A j, k \in 1..Len(list) : j # k => list[j].domain # list[k].domain

\* C14: running the expansion again on the list it left, with the same
\* candidates and outcomes, yields that same list, which has no duplicate
\* domain and starts with the list the expansion started from.
C14_ExpandIdempotent ==
  Merged =>
    LET again == mergeResults(uiResults, BatchOf(ended.task))
    IN /\ again = uiResults
       /\ NoDuplicate(again)
       /\ IsPrefix(ended.task.captured, again)

\* the first record of list with domain d
FirstOf(list, d) ==
  list[CHOOSE j \in 1..Len(list) :
         list[j].domain = d /\ \A k \in 1..(j - 1) : list[k].domain # d]

\* C15: the list shown holds one record per domain; the record a search
\* shows for a domain is the first one the search returned for it.
C15_OneRecordPerDomain ==
  /\ NoDuplicate(uiResults)
  /\ ended.kind = "search" /\ ended.outcome = "results" =>
       \A j \in 1..Len(uiResults) :
         uiResults[j].zone = FirstOf(ended.task.found, uiResults[j].domain).zone

\* the bucket a summary belongs to
Bucket(summary) ==
  IF summary = "" THEN "unknown"
  ELSE IF summary = "inactive" THEN "available"
  ELSE "unavailable"

ClassBucket(class) == IF class = "" THEN "unknown" ELSE class

TextBucket(text) ==
  IF text = "Disponible" THEN "available"
  ELSE IF text \in {"No disponible (Registrado)", "No disponible"} THEN "unavailable"
  ELSE "unknown"

\* C16: the class and the text of every result shown put it in the bucket
\* of its summary: "inactive" available, any other value unavailable, the
\* empty value unknown.
C16_Classification ==
  \A j \in 1..Len(uiResults) :
    /\ ClassBucket(getDomainStatusClass(uiResults[j].summary))
         = Bucket(uiResults[j].summary)
    /\ TextBucket(getDomainStatusText(uiResults[j].summary))
         = Bucket(uiResults[j].summary)

\* the positions of a finished search whose lookup returned the upstream's
\* report that the domain is available
ReportedAvailable(t) ==
  {j \in 1..Len(t.found) :
     /\ upstreamKind(t.found[j].domain) = "available"
     /\ t.responses[j] = responseBody(version, t.found[j].domain, "report")}

\* C17: the results of a search, as rendered and as exported, mark as many
\* entries available as the upstream reported available.
C17_AvailableCount ==
  ended.kind = "search" /\ ended.outcome = "results" =>
    LET n == Cardinality(ReportedAvailable(ended.task))
    IN /\ Cardinality({j \in 1..Len(uiResults) :
                         renderRow(uiResults[j]).class = "available"}) = n
       /\ Cardinality({j \in 1..Len(uiResults) :
                         csvLine(uiResults[j]).text = "Disponible"}) = n

\* C18: a handler call that issued a lookup never ends in an error.
C18_ErrorOnlyForBadInput ==
  /\ ended.kind \in {"search", "expand"} /\ ended.outcome = "error" =>
       ended.task = NoTask
  /\ ended.kind \in {"search", "expand"} /\ ended.outcome = "ignored" =>
       ended.task = NoTask

\* a response without a status entry
NoEntry(body) == ~hasStatusList(body) \/ Len(body.status) = 0

\* C19: when every status response of a call is in and some have no status
\* entry, the call does not end in an error; a search then shows one item
\* per domain found, those without an entry with empty status and summary.
C19_NoStatusEntryIsUnknown ==
  /\ StepOf("search") \/ StepOf("expand")
  /\ ended.task.pc = "status"
  /\ \A j \in 1..Len(ended.task.responses) : ended.task.responses[j] # PendingBody
  /\ \E j \in 1..Len(ended.task.responses) : NoEntry(ended.task.responses[j])
  =>
  /\ ended.outcome # "error"
  /\ ended.kind = "search" =>
       /\ Len(uiResults) = Len(ended.task.found)
       /\ \A j \in 1..Len(uiResults) :
            /\ uiResults[j].domain = ended.task.found[j].domain
            /\ NoEntry(ended.task.responses[j]) =>
                 uiResults[j].status = "" /\ uiResults[j].summary = ""

\* C20: after an expansion of query q merged its batch, the entry stored
\* under the key of q, if any, holds the merged list.
C20_CacheHoldsMerged ==
  Merged /\ has(entries, searchKey(trim(ended.task.q))) =>
    entryOf(entries, searchKey(trim(ended.task.q))).value = uiResults

\* the positions of the cache that hold key, unexpired
FreshAt(key) ==
  {k \in 1..Len(entries) : entries[k].key = key /\ now <= entries[k].expiry}

\* a call of handleSearch with a usable query: served from the cache
\* without a lookup, or a search lookup is issued
SearchCallStep ==
  handleSearch /\ trim(query) # <<>> =>
    LET fresh == FreshAt(searchKey(trim(query)))
    IN IF enabled /\ fresh # {}
       THEN /\ \E k \in fresh : uiResults' = entries[k].value
            /\ tasks' = tasks
            /\ calls' = calls
       ELSE /\ Len(tasks') = Len(tasks) + 1
            /\ SubSeq(tasks', 1, Len(tasks)) = tasks
            /\ tasks'[Len(tasks')].kind = "search"
            /\ tasks'[Len(tasks')].queries = <<trim(query)>>
            /\ tasks'[Len(tasks')].settled = <<Pending>>

\* a search that obtained a non-empty list has stored what it shows
SearchStored ==
  ended.kind = "search" /\ ended.outcome = "results" =>
    /\ uiResults # <<>>
    /\ \E k \in 1..Len(entries) :
         entries[k].key = ended.task.key /\ entries[k].value = uiResults

\* C21: a search whose key is stored and unexpired shows the cached list
\* and issues no lookup; any other search issues its search lookup and,
\* once it has a non-empty list, stores it under its key.
C21_CacheHitNoLookups == [][SearchCallStep]_vars /\ []SearchStored

\* a search was served from the cache
C21_Witness ==
  ended.kind = "search" /\ ended.outcome = "cached" /\ uiResults # <<>>

\* a call in progress waits for a lookup or for the timer between lookups
Waiting(t) ==
  \/ t.pc = "searches" /\ \E k \in 1..Len(t.settled) : t.settled[k] = Pending
  \/ t.pc \in {"status", "delay"} /\ Len(t.responses) < Len(t.found)

\* a call ends its search phase with no search pending, and its status
\* batch with one response per domain, never earlier and never in an error
BatchWhole ==
  /\ (StepOf("search") \/ StepOf("expand")) /\ ended.kind = "expand"
       /\ ended.task.pc = "searches" => NonePending(ended.task.settled)
  /\ (StepOf("search") \/ StepOf("expand")) /\ ended.task.pc = "status" =>
       /\ ended.outcome \in {"results", "merged"}
       /\ Len(ended.task.responses) = Len(ended.task.found)

\* C22: every call in progress has a lookup or a timer to wait for, a
\* status batch of n domains ends after n lookups, a parallel batch after
\* all its lookups settled, and, lookups settling, every call ends.
C22_BatchTerminates ==
  /\ [](\A i \in 1..Len(tasks) : Waiting(tasks[i]))
  /\ []BatchWhole
  /\ (tasks # <<>>) ~> (tasks = <<>>)

\* a sequential batch of two domains ended although a lookup had failed
C22_Witness ==
  /\ ended.kind = "search" /\ ended.outcome = "results"
  /\ Len(ended.task.found) = 2
  /\ \E j \in 1..2 : ended.task.responses[j] = placeholder(ended.task.found[j].domain, ServerError)

\* the status and summary a lookup that returned body gives
LookedUp(body) ==
  IF body # FailedBody /\ "status" \in DOMAIN body /\ Len(body.status) > 0
  THEN <<body.status[1].status, body.status[1].summary>>
  ELSE <<"", "">>

\* C23: the status batch of the extension ends only when every lookup has
\* settled; the search that awaited it never ends in an error and shows,
\* at each position, the domain found there with the status and summary
\* looked up, both empty where the lookup failed.
C23_PopupStatusNeverRejects ==
  /\ (StepOf("search") \/ StepOf("expand")) /\ ended.task.pc = "status" =>
       /\ Len(ended.task.responses) = Len(ended.task.found)
       /\ \A j \in 1..Len(ended.task.responses) :
            ended.task.responses[j] # PendingBody
  /\ StepOf("search") /\ ended.task.pc = "status" =>
       /\ ended.outcome = "results"
       /\ Len(uiResults) = Len(ended.task.found)
       /\ \A j \in 1..Len(uiResults) :
            /\ uiResults[j].domain = ended.task.found[j].domain
            /\ uiResults[j].zone = ended.task.found[j].zone
            /\ <<uiResults[j].status, uiResults[j].summary>>
                 = LookedUp(ended.task.responses[j])

\* a search of the extension showed two domains, one lookup having failed
\* and one having returned a status
C23_Witness ==
  /\ StepOf("search") /\ ended.outcome = "results"
  /\ \E j, k \in 1..Len(uiResults) :
       /\ ended.task.responses[j] = FailedBody
       /\ uiResults[j].summary = ""
       /\ uiResults[k].summary # ""

\* C24: an expansion of the extension whose searches all succeeded and
\* found a domain ends with no error shown, the expanded flag set and the
\* list it started from followed by the new domains not already in it.
C24_PopupExpandMerges ==
  StepOf("expand") /\ ended.task.pc = "status" =>
    /\ error = ""
    /\ expanded
    /\ uiResults = ended.task.captured
                     \o KeepNew(BatchOf(ended.task), ended.task.captured)

\* C25: when the last call in progress ends by showing its results, no
\* search for another query was submitted after that call: the results
\* shown are those of the most recently submitted query.
C25_NewestQueryShown ==
  /\ tasks = <<>>
  /\ ended.kind \in {"search", "expand"}
  /\ ended.outcome \in {"results", "merged"}
  => ended.task.newer \in {<<>>, trim(ended.task.q)}

\* C26: the loading flag is true exactly while a search or an expansion
\* has lookups outstanding.
C26_LoadingWhileOutstanding == loading <=> tasks # <<>>

\* C27: a search that ends by showing a non-empty list, fetched or cached,
\* shows no error message.
C27_NoStaleError ==
  /\ ended.kind = "search"
  /\ ended.outcome \in {"results", "cached"}
  /\ uiResults # <<>>
  => error = ""

\* C28: class, text, icon and search buttons of every result shown put it
\* in one and the same bucket.
C28_PresentationsAgree ==
  \A j \in 1..Len(uiResults) :
    LET row == renderRow(uiResults[j])
        b == ClassBucket(row.class)
    IN /\ TextBucket(row.text) = b
       /\ (row.icon = "check") <=> (b = "available")
       /\ row.buttons <=> (b = "available")

\* the response the batch puts in place of a lookup that threw
IsPlaceholder(body) ==
  /\ "status" \in DOMAIN body
  /\ Len(body.status) > 0
  /\ "error" \in DOMAIN body.status[1]

\* C29: a search writes the cache when all its status lookups are done,
\* and what it writes has no item whose status lookup failed.
C29_NoPlaceholderCached ==
  ended.kind = "search" /\ ended.outcome = "results" =>
    /\ Len(ended.task.responses) = Len(ended.task.found)
    /\ \A j \in 1..Len(ended.task.found) :
         IsPlaceholder(ended.task.responses[j]) =>
           \A k \in 1..Len(entries) :
             entries[k].key = ended.task.key =>
               \A n \in 1..Len(entries[k].value) :
                 entries[k].value[n] #
                   [domain |-> ended.task.found[j].domain,
                    zone |-> ended.task.found[j].zone,
                    status |-> "", summary |-> ""]

(***************************************************************************)
(* The server process and its shutdown (ShutdownSpec).  Time is counted    *)
(* in milliseconds and passes in steps of at most TickMs, never past a     *)
(* timer that is due.                                                      *)
(***************************************************************************)
MaxConns == 3      \* connections open at once
MaxSignals == 2    \* signals delivered in one run
TickMs == 2500     \* the longest step of the clock

FORCE_SHUTDOWN_MS == 10000

Signals == {"SIGTERM", "SIGINT"}

\* the smallest element of a non-empty set of numbers
Min(S) == CHOOSE x \in S : \A y \in S : x <= y

ShutdownInit ==
  /\ CacheIdle
  /\ KeyIdle
  /\ SeqIdle
  /\ AppIdle
  /\ server = "listening"
  /\ conns = 0
  /\ timers = {}
  /\ exitCode = -1
  /\ signals = 0
  /\ sinceSignal = 0

\* a client connects; a server that was closed accepts no connection
connectionOpened ==
  /\ exitCode = -1
  /\ server = "listening"
  /\ conns < MaxConns
  /\ conns' = conns + 1
  /\ UNCHANGED <<server, timers, exitCode, signals, sinceSignal>>
  /\ UNCHANGED <<cacheVars, keyVars, seqVars, appVars>>

\* a connection ends
connectionClosed ==
  /\ exitCode = -1
  /\ conns > 0
  /\ conns' = conns - 1
  /\ UNCHANGED <<server, timers, exitCode, signals, sinceSignal>>
  /\ UNCHANGED <<cacheVars, keyVars, seqVars, appVars>>

\* a buggy handler: server.close without the forced-shutdown timer
gracefulShutdownNoTimer(signal) ==
  /\ exitCode = -1
  /\ server \in {"listening", "closing"}
  /\ signals < MaxSignals
  /\ server' = "closing"
  /\ signals' = signals + 1
  /\ UNCHANGED <<conns, timers, exitCode, sinceSignal>>
  /\ UNCHANGED <<cacheVars, keyVars, seqVars, appVars>>

\* process.on(signal): server.close(callback) and setTimeout(..., 10000)
gracefulShutdown(signal) ==
  /\ exitCode = -1
  /\ server \in {"listening", "closing"}
  /\ signals < MaxSignals
  /\ server' = "closing"
  /\ timers' = timers \cup {FORCE_SHUTDOWN_MS}
  /\ signals' = signals + 1
  /\ UNCHANGED <<conns, exitCode, sinceSignal>>
  /\ UNCHANGED <<cacheVars, keyVars, seqVars, appVars>>

\* the callback of server.close: no connection is left, process.exit(0)
serverClosed ==
  /\ exitCode = -1
  /\ server = "closing"
  /\ conns = 0
  /\ server' = "closed"
  /\ exitCode' = 0
  /\ UNCHANGED <<conns, timers, signals, sinceSignal>>
  /\ UNCHANGED <<cacheVars, keyVars, seqVars, appVars>>

\* time passes while a timer is set and none is due
timePasses ==
  /\ exitCode = -1
  /\ timers # {}
  /\ 0 \notin timers
  /\ LET dt == IF Min(timers) < TickMs THEN Min(timers) ELSE TickMs
     IN /\ timers' = {r - dt : r \in timers}
        /\ sinceSignal' = sinceSignal + dt
  /\ UNCHANGED <<server, conns, exitCode, signals>>
  /\ UNCHANGED <<cacheVars, keyVars, seqVars, appVars>>

\* the callback of setTimeout: process.exit(1)
forcedShutdown ==
  /\ exitCode = -1
  /\ 0 \in timers
  /\ exitCode' = 1
  /\ UNCHANGED <<server, conns, timers, signals, sinceSignal>>
  /\ UNCHANGED <<cacheVars, keyVars, seqVars, appVars>>

ShutdownNext ==
  \/ connectionOpened
  \/ connectionClosed
  \/ \E signal \in Signals : gracefulShutdown(signal)
  \/ serverClosed
  \/ timePasses
  \/ forcedShutdown

\* the event loop: time passes and a timer that is due fires
ShutdownSpec ==
  /\ ShutdownInit
  /\ [][ShutdownNext]_vars
  /\ WF_vars(timePasses)
  /\ WF_vars(forcedShutdown)

\* C30: once a signal was received the process exits: with code 0 and no
\* connection left, or with code 1 when 10000 ms have passed since the
\* first signal; it does not run longer than that.
C30_ShutdownExits ==
  /\ (signals > 0) ~> (exitCode # -1)
  /\ [](exitCode \in {-1, 0, 1})
  /\ [](exitCode = 0 => signals > 0 /\ conns = 0)
  /\ [](exitCode = 1 => signals > 0 /\ sinceSignal = FORCE_SHUTDOWN_MS)
  /\ [](exitCode = -1 => sinceSignal <= FORCE_SHUTDOWN_MS)

\* the shutdown was forced while a connection was still open
C30_Witness == exitCode = 1 /\ conns > 0 /\ signals = 2

====
